---- MODULE Spec2Model ----
(***************************************************************************)
(* Model of the vnstat-dashboard time-series aggregation engine:           *)
(*   frontend/src/utils/dataAggregation.js  (aggregateDataByTime,          *)
(*       aggregateCombinedServerData and their helpers),                   *)
(*   frontend/src/services/apiService.js    (normalizeTimestamp),          *)
(*   frontend/src/components/RealtimeChart.js (aggregateRealtimeData),     *)
(* and of the API key check of the backend (backend/index.template.js and  *)
(* the legacy application beside it).  Three further specifications follow  *)
(* the parts that run on their own: SpecAgent the agent's control script   *)
(* (agent/install.sh), SpecApp the refresh effect of App.js, SpecChart a   *)
(* chart's history fetches and the browser cache.                          *)
(*                                                                         *)
(* Time is counted in whole seconds since the epoch.  A JavaScript Date is *)
(* its instant; the Invalid Date is the value NaT.  The browser's time     *)
(* zone is a fixed offset tz (seconds east of UTC); local calendar fields  *)
(* of an instant t are those of t + tz.                                    *)
(*                                                                         *)
(* A JavaScript number is a pair <<a, b>> that stands for a * 2^53 + b,    *)
(* with naturals a and b < 2^53: the integers below 2^53 are the pairs     *)
(* <<0, b>>.  Sums are rounded as IEEE 754 doubles round them.  Means and  *)
(* totals are exact quotients <<a, b, d>> = (a * 2^53 + b) / d in lowest   *)
(* terms.                                                                  *)
(***************************************************************************)
EXTENDS Integers, Sequences, FiniteSets, TLC

VARIABLES
    now,        \* the wall clock read by `new Date()`
    tz,         \* offset of Intl.DateTimeFormat().resolvedOptions().timeZone
    feed,       \* which kind of samples the backend is serving
    timeRange,  \* the selected look-back window label
    history,    \* per server: the raw sample array handed to the aggregators
    buckets,    \* the Map built by the most recent aggregator call
    lastCall,   \* the most recent aggregator call and what it returned
    response,   \* the backend's answer to the most recent HTTP request
    pidFile,    \* agent: the content of $PID_FILE, or NoPidFile
    loops,      \* agent: the background subshells of start_agent that are alive
    command,    \* agent: the vnstat-agent command that is running, if any
    printed,    \* agent: what the last command told the user
    clock,      \* page: seconds since the page was loaded (Date.now())
    app,        \* page: the App component: its state, effect and timer
    chart,      \* page: a chart component: its state, fetches and timer
    cache       \* page: the localStorage entry of the chart's history request

engineVars == <<now, tz, feed, timeRange, history, buckets, lastCall, response>>
agentVars  == <<pidFile, loops, command, printed>>
pageVars   == <<clock, app, chart, cache>>
vars       == <<engineVars, agentVars, pageVars>>

-----------------------------------------------------------------------------
(* Bounds of the model                                                     *)

NumServers  == 2
SeriesLen   == 62
MaxPermuted == 3     \* arrays up to this length are tried in every order
GridPoints  == 168   \* instants of a window at which the key function is tried

Servers == 1..NumServers

-----------------------------------------------------------------------------
(* Values                                                                  *)

NaT == -1            \* Invalid Date (getTime() is NaN)

TimeRanges == {"1h", "6h", "12h", "1d", "3d", "1w", "30d"}

RECURSIVE GCD(_, _)
GCD(a, b) == IF b = 0 THEN a ELSE GCD(b, a % b)

\* the quotient n / d of a number n and a natural d > 0
Quot(n, d) ==
    LET g == GCD(GCD(n[1], n[2]), d) IN <<n[1] \div g, n[2] \div g, d \div g>>

\* a total that is never added to
KeepLeft(p, q) == p

RatAdd(p, q) ==
    Quot(<<p[1] * q[3] + q[1] * p[3], p[2] * q[3] + q[2] * p[3]>>, p[3] * q[3])

Zero == <<0, 0, 1>>

\* the spacing of the doubles from a * 2^53 up, for a >= 1: 2 in
\* [2^53, 2^54), 4 in [2^54, 2^55), ...
RECURSIVE Ulp(_)
Ulp(a) == IF a < 2 THEN 2 ELSE 2 * Ulp(a \div 2)

\* round-to-nearest, ties-to-even, of a * 2^53 + b.  Below 2^53 every
\* integer is a double; from 2^53 up b is rounded to a multiple of the
\* spacing, and a * 2^53 is an even multiple of it.
RoundToDouble(a, b) ==
    IF a = 0 THEN <<0, b>>
    ELSE LET g == Ulp(a)
             q == b \div g
             r == b % g
             up == \/ 2 * r > g
                   \/ 2 * r = g /\ q % 2 = 1
         IN  <<a, IF up THEN (q + 1) * g ELSE q * g>>

\* x + y of two numbers
FloatAdd(x, y) == RoundToDouble(x[1] + y[1], x[2] + y[2])

\* values.reduce((sum, val) => sum + val, 0): a left fold, each partial
\* sum rounded
RECURSIVE SumFirst(_, _)
SumFirst(s, n) ==
    IF n = 0 THEN <<0, 0>>
    ELSE LET sum == SumFirst(s, n - 1) IN FloatAdd(sum, s[n])

SumSeq(s) == SumFirst(s, Len(s))

\* the value pushed last instead of the mean
LastValue(values) == Quot(values[Len(values)], 1)

\* values.reduce((sum, val) => sum + val, 0) / values.length
MeanOf(values) == Quot(SumSeq(values), Len(values))

-----------------------------------------------------------------------------
(* Local calendar fields of a Date (fixed-offset time zone)                *)

GetSeconds(t) == (t + tz) % 60
GetMinutes(t) == ((t + tz) \div 60) % 60
GetHours(t)   == ((t + tz) \div 3600) % 24

StartOfMinute(t) == IF t = NaT THEN NaT ELSE t - ((t + tz) % 60)
StartOfHour(t)   == IF t = NaT THEN NaT ELSE t - ((t + tz) % 3600)
StartOfDay(t)    == IF t = NaT THEN NaT ELSE t - ((t + tz) % 86400)
AddMinutes(t, n) == IF t = NaT THEN NaT ELSE t + 60 * n
AddHours(t, n)   == IF t = NaT THEN NaT ELSE t + 3600 * n

-----------------------------------------------------------------------------
(* Timestamps as the backend or the cache can deliver them.                *)
(*   kind "isoZ"      "2024-01-10T12:00:25Z"                               *)
(*        "isoOffset" "2024-01-10T17:30:25+05:30"  (off = +19800)          *)
(*        "isoLocalT" "2024-01-10T12:00:25"        (no zone marker)        *)
(*        "mysql"     "2024-01-10 12:00:25"        (no 'T', no marker)     *)
(*        "epoch"     a number                                             *)
(*        "date"      a Date object                                        *)
(*        "garbage"   a non-empty string that is no date, e.g. "n/a"       *)
(*        "empty"     undefined, null or ""                                *)
(* wall is the instant whose UTC fields are the fields written in the      *)
(* string (for "epoch" and "date": the instant itself).                    *)

Ts(kind, wall, off) == [kind |-> kind, wall |-> wall, off |-> off]

IsString(ts) == ts.kind \in {"isoZ", "isoOffset", "isoLocalT", "mysql", "garbage"}

\* timestamp.includes('T') || timestamp.includes('Z')
IncludesTorZ(ts) == ts.kind \in {"isoZ", "isoOffset", "isoLocalT"}

\* timestamp + 'Z'
AppendZ(ts) == IF ts.kind = "mysql" THEN Ts("isoZ", ts.wall, 0) ELSE ts

\* date-fns parseISO: an explicit zone is honoured, a date-time without one
\* is taken as local time, anything else is the Invalid Date
ParseISO(ts) ==
    CASE ts.kind = "isoZ"      -> ts.wall
      [] ts.kind = "isoOffset" -> ts.wall - ts.off
      [] ts.kind = "isoLocalT" -> ts.wall - tz
      [] OTHER                 -> NaT

\* new Date(timestamp), the fallback of the catch block
NewDate(ts) ==
    CASE ts.kind \in {"epoch", "date", "isoZ"} -> ts.wall
      [] ts.kind = "isoOffset"                  -> ts.wall - ts.off
      [] ts.kind \in {"isoLocalT", "mysql"}     -> ts.wall - tz
      [] OTHER                                  -> NaT

\* date-fns-tz utcToZonedTime(date, userTz): a Date whose local fields are
\* the wall clock of userTz at `date`.  userTz is the zone of the runtime
\* itself, so the fields are shifted by tz and read back with tz.
UtcToZonedTime(date) == (date + tz) - tz

\* apiService.normalizeTimestamp, called with a truthy timestamp.
\* utcToZonedTime raises a RangeError on the Invalid Date; the catch block
\* then returns new Date(timestamp).
NormalizeTimestamp(ts) ==
    LET date == IF IsString(ts)
                THEN IF IncludesTorZ(ts) THEN ParseISO(ts) ELSE ParseISO(AppendZ(ts))
                ELSE ts.wall
    IN  IF date = NaT THEN NewDate(ts) ELSE UtcToZonedTime(date)

-----------------------------------------------------------------------------
(* Rates: a number, a non-numeric string, or nothing (undefined / null).   *)
(* The number is huge * 2^53 + val.                                        *)

Num(v)  == [kind |-> "num", val |-> v, huge |-> 0]
Huge(a) == [kind |-> "num", val |-> 0, huge |-> a]
StrRate == [kind |-> "str", val |-> 0, huge |-> 0]
NoRate  == [kind |-> "null", val |-> 0, huge |-> 0]

\* (!x && x !== 0)
Missing(rate) == rate.kind = "null"

\* Number(x) || 0
ToNumber(rate) == IF rate.kind = "num" THEN <<rate.huge, rate.val>> ELSE <<0, 0>>

Sample(ts, rx, tx) == [timestamp |-> ts, rx_rate |-> rx, tx_rate |-> tx]

\* the guard at the top of every forEach callback
Skipped(point) ==
    \/ point.timestamp.kind = "empty"
    \/ Missing(point.rx_rate)
    \/ Missing(point.tx_rate)

-----------------------------------------------------------------------------
(* dataAggregation.js helpers                                              *)

IntervalSeconds(range) ==
    CASE range \in {"1h", "6h"}  -> 5
      [] range \in {"12h", "1d"} -> 30
      [] range \in {"3d", "1w"}  -> 60
      [] OTHER                   -> 5

\* the seconds raised to the next multiple of the interval instead of lowered
RaiseSeconds(t, range) ==
    IF t = NaT THEN NaT
    ELSE LET seconds == GetSeconds(t)
             raised  == ((seconds + IntervalSeconds(range) - 1)
                             \div IntervalSeconds(range)) * IntervalSeconds(range)
         IN  t - seconds + raised

StandardizeTimestamp(t, range) ==
    IF t = NaT THEN NaT
    ELSE LET seconds == GetSeconds(t)
             standardizedSeconds ==
                 (seconds \div IntervalSeconds(range)) * IntervalSeconds(range)
         IN  t - seconds + standardizedSeconds

\* Math.floor(Math.floor(h / 1.2) * 1.2) and the same with 2.8, which in
\* IEEE doubles agree with the exact quotients for every hour 0..23
FloorHours12(h) == (6 * ((5 * h) \div 6)) \div 5
FloorHours28(h) == (14 * ((5 * h) \div 14)) \div 5

MinuteBucket(t, m) ==
    IF t = NaT THEN NaT
    ELSE AddMinutes(StartOfHour(t), (GetMinutes(t) \div m) * m)

BucketFunction(range, t) ==
    CASE range = "1h"  -> StartOfMinute(t)
      [] range = "6h"  -> MinuteBucket(t, 6)
      [] range = "12h" -> MinuteBucket(t, 12)
      [] range = "1d"  -> MinuteBucket(t, 24)
      [] range = "3d"  -> IF t = NaT THEN NaT
                          ELSE AddHours(StartOfDay(t), FloorHours12(GetHours(t)))
      [] range = "1w"  -> IF t = NaT THEN NaT
                          ELSE AddHours(StartOfDay(t), FloorHours28(GetHours(t)))
      [] OTHER         -> StartOfMinute(t)

\* the width the charts announce for a window, in seconds: 1, 6, 12 and
\* 24 minutes, 1.2 and 2.8 hours
Width(range) ==
    CASE range = "1h"  -> 60
      [] range = "6h"  -> 6 * 60
      [] range = "12h" -> 12 * 60
      [] range = "1d"  -> 24 * 60
      [] range = "3d"  -> 4320
      [] range = "1w"  -> 10080

TargetDataPoints(range) == 60

\* a look-back duration that reads a label it does not know as that many
\* days
DurationOfDays(range) ==
    CASE range = "1h"  -> 3600
      [] range = "6h"  -> 6 * 3600
      [] range = "12h" -> 12 * 3600
      [] range = "1d"  -> 24 * 3600
      [] range = "3d"  -> 3 * 86400
      [] range = "1w"  -> 7 * 86400
      [] OTHER         -> 30 * 86400

\* the look-back duration subtracted from now, in seconds
Duration(range) ==
    CASE range = "1h"  -> 3600
      [] range = "6h"  -> 6 * 3600
      [] range = "12h" -> 12 * 3600
      [] range = "1d"  -> 24 * 3600
      [] range = "3d"  -> 3 * 86400
      [] range = "1w"  -> 7 * 86400
      [] OTHER         -> 3600

TimeRangeCutoff(range) == now - Duration(range)

\* normalizedTime < cutoffTime; a comparison with the Invalid Date is false
Before(t, cutoff) == t # NaT /\ t < cutoff

\* date-fns format(date, 'MMM dd, HH:mm:ss'): the local day and time of day
Format(t) == <<(t + tz) \div 86400, GetHours(t), GetMinutes(t), GetSeconds(t)>>

-----------------------------------------------------------------------------
(* Aggregator arguments and results                                        *)

\* what a caller passes as rawData / allServerData: an array, or something
\* that is no array (null, undefined, an error object)
Arr(items) == [isArray |-> TRUE, items |-> items]
NoArray    == [isArray |-> FALSE, items |-> <<>>]

\* !x || !Array.isArray(x) || x.length === 0
EmptyInput(x) == ~x.isArray \/ Len(x.items) = 0

Returned(points) == [threw |-> FALSE, points |-> points]
Threw            == [threw |-> TRUE, points |-> <<>>]

\* a Map that outlives the call that filled it
ReusedMap(fn) == IF lastCall.fn = fn THEN buckets ELSE <<>>

\* const buckets = new Map()
NewMap(fn) == <<>>

\* A Map is the sequence of its entries in insertion order.  The forEach
\* loops are written out as what they leave behind: the keys in the order
\* of their first appearance, and under each key the values pushed to it in
\* array order.

\* a function on 1..n as the array of its values
Array(f) == f \o <<>>

\* the indices 1..n of an array, in order
Indices(n) == Array([i \in 1..n |-> i])

\* an array turned around in place, as rawData.reverse() leaves it
ReversedInPlace(x) ==
    IF EmptyInput(x) THEN x
    ELSE [x EXCEPT !.items = Array([i \in 1..Len(@) |-> @[Len(@) + 1 - i]])]

\* the input array after the call: forEach only reads the points, the
\* values go into the call's own Map, and map, sort and slice work on the
\* array made from the Map
AfterForEach(rawData) == rawData

\* the members of a sequence in the order of their first appearance
InsertionOrder(keys) ==
    LET firsts == SelectSeq(Indices(Len(keys)),
                            LAMBDA i : \A j \in 1..(i - 1) : keys[j] # keys[i])
    IN  Array([k \in 1..Len(firsts) |-> keys[firsts[k]]])

KeysOf(map) == Array([i \in 1..Len(map) |-> map[i].key])

\* position of key in a Map, 0 when absent
IndexOf(map, key) ==
    LET hits == {i \in 1..Len(map) : map[i].key = key} IN
    IF hits = {} THEN 0 ELSE CHOOSE i \in hits : \A j \in hits : i <= j

\* no sort: the order of the Map
Unsorted(s) == s

\* Array.prototype.sort with (a, b) => new Date(a.timestamp) - new Date(b.timestamp):
\* a stable sort, every element placed behind the earlier ones and behind
\* the equal ones that precede it in the array
SortByTimestamp(s) ==
    LET pos == Array([i \in 1..Len(s) |->
                   1 + Cardinality({j \in 1..Len(s) :
                           \/ s[j].timestamp < s[i].timestamp
                           \/ s[j].timestamp = s[i].timestamp /\ j < i})])
    IN  Array([k \in 1..Len(s) |-> s[CHOOSE i \in 1..Len(s) : pos[i] = k]])

\* no truncation
Unlimited(data, range) == data

\* if (data.length > targetPoints) return data.slice(-targetPoints)
LimitPoints(data, range) ==
    IF Len(data) > TargetDataPoints(range)
    THEN SubSeq(data, Len(data) - TargetDataPoints(range) + 1, Len(data))
    ELSE data

\* bucketFunction(standardizeTimestamp(normalizedTime, timeRange))
BucketTime(normalizedTime, range) ==
    BucketFunction(range, StandardizeTimestamp(normalizedTime, range))

\* a point gets past both early returns of the forEach callback
Kept(point, range) ==
    /\ ~Skipped(point)
    /\ ~Before(NormalizeTimestamp(point.timestamp), TimeRangeCutoff(range))

\* bucketKey of a point
KeyOf(point, range) == BucketTime(NormalizeTimestamp(point.timestamp), range)

\* the numbers pushed for a sequence of points
RxValues(points) == Array([i \in 1..Len(points) |-> ToNumber(points[i].rx_rate)])
TxValues(points) == Array([i \in 1..Len(points) |-> ToNumber(points[i].tx_rate)])

-----------------------------------------------------------------------------
(* aggregateDataByTime                                                     *)

\* the Map after rawData.forEach
GroupByTime(rawData, range) ==
    LET init  == NewMap("aggregateDataByTime")
        kept  == SelectSeq(rawData.items, LAMBDA p : Kept(p, range))
        keys  == Array([i \in 1..Len(kept) |-> KeyOf(kept[i], range)])
        order == InsertionOrder(KeysOf(init) \o keys)
    IN  Array([n \in 1..Len(order) |->
            LET had    == IndexOf(init, order[n])
                bucket == IF had = 0
                          THEN [key |-> order[n], timestamp |-> order[n],
                                rx_values |-> <<>>, tx_values |-> <<>>, count |-> 0]
                          ELSE init[had]
                at     == SelectSeq(Indices(Len(kept)), LAMBDA i : keys[i] = order[n])
                pushed == Array([i \in 1..Len(at) |-> kept[at[i]]])
            IN  [bucket EXCEPT !.rx_values = @ \o RxValues(pushed),
                               !.tx_values = @ \o TxValues(pushed),
                               !.count = @ + Len(pushed)]])

AveragePoint(bucket) ==
    [timestamp |-> bucket.timestamp,
     rx_rate |-> IF Len(bucket.rx_values) > 0 THEN MeanOf(bucket.rx_values) ELSE Zero,
     tx_rate |-> IF Len(bucket.tx_values) > 0 THEN MeanOf(bucket.tx_values) ELSE Zero,
     data_points |-> bucket.count,
     timestamp_formatted |-> Format(bucket.timestamp)]

\* format() raises a RangeError when a bucket carries the Invalid Date
FormatFails(map) == \E i \in 1..Len(map) : map[i].timestamp = NaT

\* what the function does with the filled Map
AverageBuckets(map, range) ==
    IF FormatFails(map) THEN Threw
    ELSE LET points == Array([i \in 1..Len(map) |-> AveragePoint(map[i])])
             sorted == SortByTimestamp(points)
         IN  Returned(LimitPoints(sorted, range))

AggregateDataByTime(rawData, range) ==
    IF EmptyInput(rawData) THEN Returned(<<>>)
    ELSE AverageBuckets(GroupByTime(rawData, range), range)

-----------------------------------------------------------------------------
(* aggregateCombinedServerData                                             *)

\* the points of all server arrays that reach a bucket, in forEach order,
\* each with the index of its array; an entry that is no array or is empty
\* is passed over
RECURSIVE KeptOfServers(_, _, _)
KeptOfServers(all, n, range) ==
    IF n = 0 THEN <<>>
    ELSE LET before == KeptOfServers(all, n - 1, range)
             kept   == IF EmptyInput(all[n]) THEN <<>>
                       ELSE SelectSeq(all[n].items, LAMBDA p : Kept(p, range))
         IN  before \o Array([i \in 1..Len(kept) |->
                                  [serverIndex |-> n, point |-> kept[i]]])

\* the Map after allServerData.forEach
GroupCombined(allServerData, range) ==
    LET init  == NewMap("aggregateCombinedServerData")
        kept  == KeptOfServers(allServerData.items, Len(allServerData.items), range)
        keys  == Array([i \in 1..Len(kept) |-> KeyOf(kept[i].point, range)])
        order == InsertionOrder(KeysOf(init) \o keys)
    IN  Array([n \in 1..Len(order) |->
            LET had    == IndexOf(init, order[n])
                bucket == IF had = 0
                          THEN [key |-> order[n], timestamp |-> order[n], servers |-> <<>>]
                          ELSE init[had]
                at     == SelectSeq(Indices(Len(kept)), LAMBDA i : keys[i] = order[n])
                pushed == Array([i \in 1..Len(at) |-> kept[at[i]]])
                ids    == InsertionOrder(
                              Array([i \in 1..Len(bucket.servers) |->
                                        bucket.servers[i].serverIndex])
                              \o Array([i \in 1..Len(pushed) |-> pushed[i].serverIndex]))
            IN  [bucket EXCEPT !.servers =
                    Array([m \in 1..Len(ids) |->
                        LET old  == {i \in 1..Len(bucket.servers) :
                                        bucket.servers[i].serverIndex = ids[m]}
                            mine == SelectSeq(pushed, LAMBDA e : e.serverIndex = ids[m])
                            pts  == Array([i \in 1..Len(mine) |-> mine[i].point])
                            base == IF old = {}
                                    THEN [serverIndex |-> ids[m],
                                          rx_values |-> <<>>, tx_values |-> <<>>]
                                    ELSE bucket.servers[CHOOSE i \in old : TRUE]
                        IN  [base EXCEPT !.rx_values = @ \o RxValues(pts),
                                         !.tx_values = @ \o TxValues(pts)]])]])

\* a count of the samples of the first n entries instead of the entries
SampleTotals(servers, n) ==
    [rx |-> Zero, tx |-> Zero,
     count |-> Cardinality(UNION {{<<i, j>> : j \in 1..Len(servers[i].rx_values)} :
                                      i \in 1..n})]

\* totals over the first n entries of bucket.servers
RECURSIVE ServerTotals(_, _)
ServerTotals(servers, n) ==
    IF n = 0 THEN [rx |-> Zero, tx |-> Zero, count |-> 0]
    ELSE LET t == ServerTotals(servers, n - 1)
             serverData == servers[n]
         IN  IF Len(serverData.rx_values) > 0 /\ Len(serverData.tx_values) > 0
             THEN [rx |-> RatAdd(t.rx, MeanOf(serverData.rx_values)),
                   tx |-> RatAdd(t.tx, MeanOf(serverData.tx_values)),
                   count |-> t.count + 1]
             ELSE t

CombinedPoint(bucket) ==
    LET t == ServerTotals(bucket.servers, Len(bucket.servers)) IN
    [timestamp |-> bucket.timestamp,
     total_rx |-> t.rx,
     total_tx |-> t.tx,
     server_count |-> t.count,
     timestamp_formatted |-> Format(bucket.timestamp)]

\* .filter(point => point.server_count > 0)
WithData(points) == SelectSeq(points, LAMBDA p : p.server_count > 0)

\* what the function does with the filled Map
CombineBuckets(map, range) ==
    IF FormatFails(map) THEN Threw
    ELSE LET points == Array([i \in 1..Len(map) |-> CombinedPoint(map[i])])
             sorted == SortByTimestamp(WithData(points))
         IN  Returned(LimitPoints(sorted, range))

AggregateCombinedServerData(allServerData, range) ==
    IF EmptyInput(allServerData) THEN Returned(<<>>)
    ELSE CombineBuckets(GroupCombined(allServerData, range), range)

-----------------------------------------------------------------------------
(* The backend: the express application of index.template.js and the       *)
(* legacy application kept beside it                                       *)

Backends == {"index", "legacy"}

\* the routes each application registers
RoutesOf(backend) ==
    IF backend = "index"
    THEN {"GET /health", "GET /api/info", "POST /api/data", "GET /api/servers",
          "GET /api/aggregate", "GET /api/servers/:serverName/history",
          "GET /api/debug/recent"}
    ELSE {"POST /api/data", "GET /api/servers", "GET /api/aggregate",
          "GET /api/servers/:serverName/history", "GET /api/debug/data"}

Routes == RoutesOf("index") \cup RoutesOf("legacy")

\* req.headers['x-api-key']: no header, the empty string, another key, or
\* the configured key
Headers == {"absent", "empty", "wrong", "API_KEY"}

\* the path lies under the mount point '/api'
UnderApi(route) == route # "GET /health"

\* the request is turned away by the key middleware: the one of
\* index.template.js is mounted on '/api' and refuses a missing, empty or
\* different key; the legacy one sees every request and refuses every key
\* but the configured one
Forbidden(backend, route, header) ==
    IF backend = "index"
    THEN UnderApi(route) /\ (header \in {"absent", "empty"} \/ header # "API_KEY")
    ELSE header # "API_KEY"

\* the handlers that answer without the database
NoQuery(route) == route \in {"GET /health", "GET /api/info"}

Answer(status, handler, query) ==
    [status |-> status, handler |-> handler, query |-> query]

\* what a request is answered with: bodyOk says whether a POST body has
\* all four fields, dbOk whether the query succeeds
Respond(backend, route, header, bodyOk, dbOk) ==
    CASE Forbidden(backend, route, header) -> Answer(403, FALSE, FALSE)
      [] route \notin RoutesOf(backend)    -> Answer(404, FALSE, FALSE)
      [] NoQuery(route)                    -> Answer(200, TRUE, FALSE)
      [] backend = "index" /\ route = "POST /api/data" /\ ~bodyOk
                                           -> Answer(400, TRUE, FALSE)
      [] OTHER -> Answer(IF dbOk THEN 200 ELSE 500, TRUE, TRUE)

\* a range string of the form digits and unit letter, as the frontend sends it
Range(value, unit) == [value |-> value, unit |-> unit]

\* getBackendTimeRange: the range string asked of the backend for a label
BackendTimeRange(frontendTimeRange) ==
    CASE frontendTimeRange = "1h"  -> Range(75, "m")
      [] frontendTimeRange = "6h"  -> Range(8, "h")
      [] frontendTimeRange = "12h" -> Range(15, "h")
      [] frontendTimeRange = "1d"  -> Range(30, "h")
      [] frontendTimeRange = "3d"  -> Range(4, "d")
      [] frontendTimeRange = "1w"  -> Range(10, "d")
      [] OTHER                     -> Range(75, "m")

\* what the comments of getBackendTimeRange say the strings mean, in minutes
StatedMinutes(frontendTimeRange) ==
    CASE frontendTimeRange = "1h"  -> 75
      [] frontendTimeRange = "6h"  -> 8 * 60
      [] frontendTimeRange = "12h" -> 15 * 60
      [] frontendTimeRange = "1d"  -> 30 * 60
      [] frontendTimeRange = "3d"  -> 4 * 24 * 60
      [] frontendTimeRange = "1w"  -> 10 * 24 * 60
      [] OTHER                     -> 75

\* getBackendLimit
BackendLimit(range) ==
    CASE range = "1h"  -> 900
      [] range = "6h"  -> 600
      [] range = "12h" -> 800
      [] range = "1d"  -> 1440
      [] range = "3d"  -> 720
      [] range = "1w"  -> 840
      [] OTHER         -> 900

\* getServerHistory(server, '20m', 240, false) of the realtime chart
RealtimeRange == Range(20, "m")
RealtimeLimit == 240

\* parseTimeRangeToHours on a string that matches /^(\d+)([hdmwy])$/
ParseTimeRangeToHours(range) ==
    CASE range.unit = "h" -> range.value
      [] range.unit = "d" -> range.value * 24
      [] range.unit = "w" -> range.value * 24 * 7
      [] range.unit = "m" -> range.value * 24 * 30
      [] range.unit = "y" -> range.value * 24 * 365
      [] OTHER            -> 24

\* the agent's default interval between two reports, in seconds
AgentInterval == 5

\* the age in seconds of the oldest row the history query returns when the
\* agent has reported every `interval` seconds for longer than asked:
\* WHERE timestamp >= NOW() - hoursBack hours ORDER BY timestamp DESC LIMIT limit
OldestRow(hoursBack, limit, interval) ==
    LET inRange == ((hoursBack * 3600) \div interval) * interval
        inLimit == (limit - 1) * interval
    IN  IF inLimit < inRange THEN inLimit ELSE inRange

NoResponse ==
    [backend |-> "none", route |-> "none", header |-> "none",
     answer |-> Answer(0, FALSE, FALSE)]

-----------------------------------------------------------------------------
(* RealtimeChart.aggregateRealtimeData                                     *)

RealtimeBuckets == 30      \* for (let i = 0; i < 30; i++)
RealtimeWidth   == 30      \* 30000 ms
RealtimeWindow  == 900     \* subMinutes(now, 15)

\* Math.floor(t.getTime() / 30000) * 30000
RealtimeKey(t) == (t \div RealtimeWidth) * RealtimeWidth

\* startTime, 15 minutes before the normalized current time
RealtimeStart == NormalizeTimestamp(Ts("date", now, 0)) - RealtimeWindow

\* no pre-creation loop: the Map as it was
NoPreCreate(init) == init

\* the Map after the pre-creation loop: every key set by the loop holds a
\* fresh bucket, whether or not the Map had the key before
PreCreate(init) ==
    LET set   == Array([i \in 1..RealtimeBuckets |->
                           RealtimeKey(RealtimeStart + (i - 1) * RealtimeWidth)])
        order == InsertionOrder(KeysOf(init) \o set)
    IN  Array([n \in 1..Len(order) |->
            IF \E i \in 1..RealtimeBuckets : set[i] = order[n]
            THEN [key |-> order[n], timestamp |-> order[n],
                  rx_values |-> <<>>, tx_values |-> <<>>, count |-> 0]
            ELSE init[IndexOf(init, order[n])]])

\* a point gets past both early returns of the forEach callback
KeptRealtime(point) ==
    /\ ~Skipped(point)
    /\ ~Before(NormalizeTimestamp(point.timestamp), RealtimeStart)

\* the key under which a point looks for its bucket; the Invalid Date has
\* the key NaN, which no bucket carries
RealtimeKeyOf(point) ==
    LET pointTime == NormalizeTimestamp(point.timestamp) IN
    IF pointTime = NaT THEN NaT ELSE RealtimeKey(pointTime)

\* the Map after rawData.forEach: only buckets that exist receive values
GroupRealtime(rawData) ==
    LET created == PreCreate(NewMap("aggregateRealtimeData"))
        kept    == SelectSeq(rawData.items, KeptRealtime)
        keys    == Array([i \in 1..Len(kept) |-> RealtimeKeyOf(kept[i])])
    IN  Array([n \in 1..Len(created) |->
            LET at     == SelectSeq(Indices(Len(kept)),
                                    LAMBDA i : keys[i] = created[n].key)
                pushed == Array([i \in 1..Len(at) |-> kept[at[i]]])
            IN  [created[n] EXCEPT !.rx_values = @ \o RxValues(pushed),
                                   !.tx_values = @ \o TxValues(pushed),
                                   !.count = @ + Len(pushed)]])

RealtimePoint(bucket) ==
    LET avgRx == IF Len(bucket.rx_values) > 0 THEN MeanOf(bucket.rx_values) ELSE Zero
        avgTx == IF Len(bucket.tx_values) > 0 THEN MeanOf(bucket.tx_values) ELSE Zero
    IN  [timestamp |-> bucket.timestamp,
         total_throughput |-> RatAdd(avgRx, avgTx),
         data_points |-> bucket.count]

\* what the function does with the filled Map
ThroughputOfBuckets(map) ==
    LET points == Array([i \in 1..Len(map) |-> RealtimePoint(map[i])])
    IN  Returned(SortByTimestamp(points))

AggregateRealtimeData(rawData) ==
    IF EmptyInput(rawData) THEN Returned(<<>>)
    ELSE ThroughputOfBuckets(GroupRealtime(rawData))

-----------------------------------------------------------------------------
(* The environment: where the dashboard runs and what the backend serves   *)

\* the instant a timestamp denotes: a string without zone marker is UTC
Instant(ts) ==
    CASE ts.kind = "isoOffset"            -> ts.wall - ts.off
      [] ts.kind \in {"garbage", "empty"} -> NaT
      [] OTHER                            -> ts.wall

\* a browser (its clock and zone) together with the kind of samples served:
\* 12:00:37 UTC in a zone 5:30 east, 12:00:40 UTC in a zone five hours west,
\* 12:00:30 UTC in UTC, all on day 10 after the epoch
Deployments ==
    { [feed |-> "rates",   now |-> 907237, tz |-> 19800],
      [feed |-> "strings", now |-> 907240, tz |-> -18000],
      [feed |-> "values",  now |-> 907230, tz |-> 0],
      [feed |-> "cutoff",  now |-> 907240, tz |-> -18000],
      [feed |-> "series",  now |-> 907237, tz |-> 19800],
      [feed |-> "floats",  now |-> 907230, tz |-> 0] }

\* a sample taken `age` seconds ago, reported as an ISO string with Z
At(age) == Ts("isoZ", now - age, 0)

\* responses with good and bad rates, ten seconds and 70 seconds old, the
\* newest sample first
RateBatches ==
    { << Sample(At(10), Num(10), Num(1)),
         Sample(At(10), Num(20), Num(2)),
         Sample(At(10), Num(30), Num(3)) >>,
      << Sample(At(10), Num(10), Num(1)),
         Sample(At(70), Num(20), Num(2)) >>,
      << Sample(At(10), Num(0), Num(0)) >>,
      << Sample(At(10), StrRate, Num(4)) >>,
      << Sample(At(10), Num(4), NoRate) >> }

\* one moment, ten seconds ago, written as different strings, and a string
\* that is no date
StringBatches ==
    { << Sample(Ts(k, now - 10, 0), Num(10), Num(1)) >> :
          k \in {"isoZ", "isoLocalT", "mysql"} }
    \cup { << Sample(Ts("isoOffset", now - 10 + 19800, 19800), Num(20), Num(2)) >>,
           << Sample(Ts("garbage", 0, 0), Num(30), Num(3)) >> }

\* the same moment as a number and as a Date, a missing timestamp, and an
\* older sample
ValueBatches ==
    { << Sample(Ts("epoch", now - 10, 0), Num(10), Num(1)) >>,
      << Sample(Ts("date", now - 10, 0), Num(20), Num(2)) >>,
      << Sample(Ts("empty", 0, 0), Num(30), Num(3)) >>,
      << Sample(At(70), Num(40), Num(4)) >> }

\* samples around the cutoff of the selected window, and one five seconds
\* older than the realtime chart's 15 minutes
CutoffBatches ==
    { << Sample(At(RealtimeWindow + 5), Num(60), Num(6)) >>,
      << Sample(At(Duration(timeRange) + 1), Num(10), Num(1)) >>,
      << Sample(At(Duration(timeRange)), Num(20), Num(2)) >>,
      << Sample(At(Duration(timeRange) + 1), Num(10), Num(1)),
         Sample(At(10), Num(30), Num(3)) >>,
      << Sample(Ts("isoLocalT", now - Duration(timeRange) - 1, 0), Num(40), Num(4)) >>,
      << Sample(Ts("mysql", now - Duration(timeRange) - 1, 0), Num(50), Num(5)) >> }

\* three samples of one moment whose rates add up beyond 2^53, where not
\* every integer is a double, in two orders
FloatBatches ==
    { << Sample(At(10), Huge(1), Num(1)),
         Sample(At(10), Num(1), Num(1)),
         Sample(At(10), Num(1), Num(1)) >>,
      << Sample(At(10), Num(1), Num(2)),
         Sample(At(10), Huge(1), Num(2)),
         Sample(At(70), Num(3), Num(2)) >> }

\* an agent reporting at a steady pace: SeriesLen samples, one per nominal
\* bucket width of the selected window, the newest taken right now
SeriesStep == Duration(timeRange) \div 60

Series ==
    [i \in 1..SeriesLen |->
        Sample(At((SeriesLen - i) * SeriesStep), Num(10 + 10 * (i % 3)), Num(5))]

\* the responses the backend can give
Batches ==
    CASE feed = "rates"   -> RateBatches
      [] feed = "strings" -> StringBatches
      [] feed = "values"  -> ValueBatches
      [] feed = "cutoff"  -> CutoffBatches
      [] feed = "series"  -> {Series}
      [] feed = "floats"  -> FloatBatches

-----------------------------------------------------------------------------
(* State machine                                                           *)

NoCall == [fn |-> "none", server |-> 0, arg |-> "none", again |-> FALSE,
           result |-> Returned(<<>>)]

NoHistory == [s \in Servers |-> Arr(<<>>)]

\* the call before this one was the same function on the same argument
Repeats(fn, server, arg) ==
    lastCall.fn = fn /\ lastCall.server = server /\ lastCall.arg = arg

\* again: the call repeats the one before it, on the same input
Call(fn, server, arg, result) ==
    [fn |-> fn, server |-> server, arg |-> arg,
     again |-> Repeats(fn, server, arg),
     result |-> result]

\* a chart draws once the history is there, and draws once more on a
\* re-render with the same history
MayCall(fn, server, arg) ==
    lastCall = NoCall \/ (Repeats(fn, server, arg) /\ ~lastCall.again)

\* nothing runs on the monitored host: no PID file, no loop, no command
NoPidFile == 0

NoCommand == [name |-> "none", pid |-> 0, pc |-> "done", target |-> NoPidFile]

AgentIdle ==
    /\ pidFile = NoPidFile
    /\ loops = {}
    /\ command = NoCommand
    /\ printed = "nothing"

\* no data fetch has started yet
NoFetch == [by |-> "none", at |-> 0, gap |-> 0]

\* App as React mounts it: the state of its useState calls, one effect to
\* run, no request in flight, no timer
AppAtMount ==
    [loading |-> TRUE, servers |-> 0, timeRange |-> "1d", inFlight |-> 0,
     timers |-> {}, effect |-> "mount", started |-> NoFetch]

\* the charts that ask for server history; a ServerCard is one once its
\* chart is shown
ChartKinds == {"realtime", "combined", "card"}

\* the windows the selector of a chart is moved between
ChartRanges == {"1h", "6h"}

\* the range a chart asks the backend for; with the server's name and the
\* limit that goes with the range it is the key of the cache entry
CacheKey(kind, range) ==
    IF kind = "realtime" THEN RealtimeRange ELSE BackendTimeRange(range)

Keys == {CacheKey(kind, range) : kind \in ChartKinds, range \in ChartRanges}

\* localStorage.getItem returns null
NoEntry == [timestamp |-> 0, duration |-> 0]

NoCache == [key \in Keys |-> NoEntry]

\* no scheduled refresh has run yet
NoRefresh == [hit |-> FALSE, age |-> 0]

\* a chart as React mounts it: nothing fetched, nothing shown, no timer
ChartAtMount(kind) ==
    [kind |-> kind, mounted |-> FALSE,
     timeRange |-> IF kind = "realtime" THEN "20m" ELSE "1h",
     loading |-> kind # "card", fetches |-> {}, shown |-> "none",
     timers |-> {}, refresh |-> NoRefresh]

PageIdle ==
    /\ clock = 0
    /\ app = AppAtMount
    /\ chart = ChartAtMount("combined")
    /\ cache = NoCache

Init ==
    /\ \E d \in Deployments : feed = d.feed /\ now = d.now /\ tz = d.tz
    /\ timeRange = "1h"
    /\ history = NoHistory
    /\ buckets = <<>>
    /\ lastCall = NoCall
    /\ response = NoResponse
    /\ AgentIdle
    /\ PageIdle

\* setTimeRange: the chart drops what it shows and fetches again
SelectTimeRange(range) ==
    /\ range # timeRange
    /\ timeRange' = range
    /\ history' = NoHistory
    /\ buckets' = <<>>
    /\ lastCall' = NoCall
    /\ response' = NoResponse
    /\ UNCHANGED <<now, tz, feed>>
    /\ UNCHANGED <<agentVars, pageVars>>

\* a history response for server s takes the place of the one before it
ReceiveSamples(s, batch) ==
    /\ history[s] # Arr(batch)
    /\ history' = [history EXCEPT ![s] = Arr(batch)]
    /\ buckets' = <<>>
    /\ lastCall' = NoCall
    /\ response' = NoResponse
    /\ UNCHANGED <<now, tz, feed, timeRange>>
    /\ UNCHANGED <<agentVars, pageVars>>

\* what arrives for server s is no array
FetchFailed(s) ==
    /\ history[s] # NoArray
    /\ history' = [history EXCEPT ![s] = NoArray]
    /\ buckets' = <<>>
    /\ lastCall' = NoCall
    /\ response' = NoResponse
    /\ UNCHANGED <<now, tz, feed, timeRange>>
    /\ UNCHANGED <<agentVars, pageVars>>

\* a call leaves its result in lastCall and the Map it built in buckets;
\* the early return builds none
CallAggregateDataByTime(s) ==
    /\ MayCall("aggregateDataByTime", s, "one")
    /\ LET map == IF EmptyInput(history[s]) THEN <<>>
                  ELSE GroupByTime(history[s], timeRange)
       IN  /\ buckets' = map
           /\ lastCall' = Call("aggregateDataByTime", s, "one",
                               IF EmptyInput(history[s]) THEN Returned(<<>>)
                               ELSE AverageBuckets(map, timeRange))
    /\ history' = [history EXCEPT ![s] = AfterForEach(@)]
    /\ response' = NoResponse
    /\ UNCHANGED <<now, tz, feed, timeRange>>
    /\ UNCHANGED <<agentVars, pageVars>>

\* the allServerData argument: every server's history, an array without
\* servers, or something that is no array
CombinedArg(arg) ==
    CASE arg = "all"   -> Arr([s \in Servers |-> history[s]])
      [] arg = "empty" -> Arr(<<>>)
      [] arg = "null"  -> NoArray

\* the two arguments that carry no history are tried before any arrives
CallAggregateCombinedServerData(arg) ==
    /\ MayCall("aggregateCombinedServerData", 0, arg)
    /\ arg # "all" => history = NoHistory
    /\ LET map == IF EmptyInput(CombinedArg(arg)) THEN <<>>
                  ELSE GroupCombined(CombinedArg(arg), timeRange)
       IN  /\ buckets' = map
           /\ lastCall' = Call("aggregateCombinedServerData", 0, arg,
                               IF EmptyInput(CombinedArg(arg)) THEN Returned(<<>>)
                               ELSE CombineBuckets(map, timeRange))
    /\ history' = IF arg = "all" THEN [s \in Servers |-> AfterForEach(history[s])]
                  ELSE history
    /\ response' = NoResponse
    /\ UNCHANGED <<now, tz, feed, timeRange>>
    /\ UNCHANGED <<agentVars, pageVars>>

\* the realtime chart has no window selector and never reads timeRange: it
\* is drawn while the other charts show their initial window
CallAggregateRealtimeData(s) ==
    /\ timeRange = "1h"
    /\ MayCall("aggregateRealtimeData", s, "one")
    /\ LET map == IF EmptyInput(history[s]) THEN <<>> ELSE GroupRealtime(history[s])
       IN  /\ buckets' = map
           /\ lastCall' = Call("aggregateRealtimeData", s, "one",
                               IF EmptyInput(history[s]) THEN Returned(<<>>)
                               ELSE ThroughputOfBuckets(map))
    /\ history' = [history EXCEPT ![s] = AfterForEach(@)]
    /\ response' = NoResponse
    /\ UNCHANGED <<now, tz, feed, timeRange>>
    /\ UNCHANGED <<agentVars, pageVars>>

\* the backend answers a request; the model lets it do so while the
\* dashboard holds no history, and the dashboard's next step forgets the answer
HandleRequest(backend, route, header, bodyOk, dbOk) ==
    /\ history = NoHistory
    /\ lastCall = NoCall
    /\ response' = [backend |-> backend, route |-> route, header |-> header,
                    answer |-> Respond(backend, route, header, bodyOk, dbOk)]
    /\ response' # response
    /\ UNCHANGED <<now, tz, feed, timeRange, history, buckets, lastCall>>
    /\ UNCHANGED <<agentVars, pageVars>>

Next ==
    \/ \E range \in TimeRanges : SelectTimeRange(range)
    \/ \E s \in Servers : \E batch \in Batches : ReceiveSamples(s, batch)
    \/ \E s \in Servers : FetchFailed(s)
    \/ \E s \in Servers : CallAggregateDataByTime(s)
    \/ \E arg \in {"all", "empty", "null"} : CallAggregateCombinedServerData(arg)
    \/ \E s \in Servers : CallAggregateRealtimeData(s)
    \/ \E backend \in Backends, route \in Routes, header \in Headers,
          bodyOk \in BOOLEAN, dbOk \in BOOLEAN :
              HandleRequest(backend, route, header, bodyOk, dbOk)

Spec == Init /\ [][Next]_vars

\* the dashboard is not looked at: one deployment, nothing fetched or drawn
EngineIdle ==
    /\ \E d \in Deployments :
          d.feed = "rates" /\ feed = d.feed /\ now = d.now /\ tz = d.tz
    /\ timeRange = "1h"
    /\ history = NoHistory
    /\ buckets = <<>>
    /\ lastCall = NoCall
    /\ response = NoResponse

-----------------------------------------------------------------------------
(* The agent's control script (agent/install.sh): the commands start, stop, *)
(* restart and status, issued one after the other, and the monitoring loops *)
(* that start_agent leaves in the background.                               *)
(*                                                                         *)
(* A process is its PID.  The kernel gives a new process any PID that no   *)
(* live process holds, so the PID of a process that has exited can come    *)
(* back.  A loop is a record: its own PID, the PID of the command that     *)
(* forked it (the value of $$ inside the subshell), and where it stands:   *)
(* "forked" before it has written the PID file and set its trap,           *)
(* "monitoring" after.                                                     *)

MaxPid == 4

Pids == 1..MaxPid

Commands == {"start", "stop", "restart", "status"}

\* ps -p "$pid": the processes that are alive
Alive ==
    {l.pid : l \in loops} \cup (IF command = NoCommand THEN {} ELSE {command.pid})

\* is_running: the PID file exists and names a live process
IsRunning == pidFile # NoPidFile /\ pidFile \in Alive

\* is_running removes the PID file that names a dead process
AfterIsRunning == IF IsRunning THEN pidFile ELSE NoPidFile

\* the first function the command calls
EntryPoint(name) ==
    CASE name = "start"   -> "start_agent"
      [] name = "stop"    -> "stop_agent"
      [] name = "restart" -> "stop_agent"
      [] name = "status"  -> "show_status"

\* after stop_agent: restart sleeps and calls start_agent, stop is over
AfterStop ==
    IF command.name = "restart" THEN [command EXCEPT !.pc = "start_agent"]
    ELSE NoCommand

\* kill "$pid" (SIGTERM).  A loop that has not yet set its trap dies.  A loop
\* that has set it runs cleanup (rm -f "$PID_FILE"; exit 0) once the command
\* it waits for returns: `graceful` says whether that happens before the
\* sender looks again.  The control script itself sets no trap.
LoopsAfterKill(pid, graceful) ==
    {l \in loops : l.pid # pid \/ (l.pc = "monitoring" /\ ~graceful)}

PidFileAfterKill(pid, graceful) ==
    IF graceful /\ \E l \in loops : l.pid = pid /\ l.pc = "monitoring"
    THEN NoPidFile ELSE pidFile

\* the user types ./vnstat-agent.sh <name> when no earlier command is running
Run(name, pid) ==
    /\ command = NoCommand
    /\ pid \notin Alive
    /\ command' = [name |-> name, pid |-> pid, pc |-> EntryPoint(name),
                   target |-> NoPidFile]
    /\ UNCHANGED <<pidFile, loops, printed>>
    /\ UNCHANGED <<engineVars, pageVars>>

\* start_agent up to the fork of the background subshell
StartAgent(configured) ==
    /\ command.pc = "start_agent"
    /\ IF IsRunning
       THEN /\ printed' = "already running"
            /\ command' = NoCommand
            /\ UNCHANGED <<pidFile, loops>>
       ELSE IF ~configured
       THEN /\ printed' = "configuration not found"
            /\ command' = NoCommand
            /\ pidFile' = NoPidFile
            /\ UNCHANGED loops
       ELSE \E pid \in Pids \ Alive :
            /\ loops' = loops \cup {[pid |-> pid, parent |-> command.pid,
                                     pc |-> "forked"]}
            /\ pidFile' = NoPidFile
            /\ printed' = "starting"
            /\ command' = [command EXCEPT !.pc = "sleep 1"]
    /\ UNCHANGED <<engineVars, pageVars>>

\* the subshell: echo $$ > "$PID_FILE", trap cleanup, then the loop.  $$ is
\* the PID of the shell that runs the script, in a subshell too.
LoopWritesPid(l) ==
    /\ l.pc = "forked"
    /\ pidFile' = l.parent
    /\ loops' = (loops \ {l}) \cup {[l EXCEPT !.pc = "monitoring"]}
    /\ UNCHANGED <<command, printed>>
    /\ UNCHANGED <<engineVars, pageVars>>

\* start_agent after `sleep 1`: report, and the command is over
StartReport ==
    /\ command.pc = "sleep 1"
    /\ printed' = IF IsRunning THEN "started" ELSE "failed to start"
    /\ pidFile' = AfterIsRunning
    /\ command' = NoCommand
    /\ UNCHANGED loops
    /\ UNCHANGED <<engineVars, pageVars>>

\* stop_agent up to `sleep 2`
StopAgent(graceful) ==
    /\ command.pc = "stop_agent"
    /\ IF ~IsRunning
       THEN /\ printed' = "not running"
            /\ pidFile' = NoPidFile
            /\ command' = AfterStop
            /\ UNCHANGED loops
       ELSE /\ printed' = "stopping"
            /\ loops' = LoopsAfterKill(pidFile, graceful)
            /\ pidFile' = PidFileAfterKill(pidFile, graceful)
            /\ command' = IF pidFile = command.pid THEN NoCommand
                          ELSE [command EXCEPT !.pc = "sleep 2", !.target = pidFile]
    /\ UNCHANGED <<engineVars, pageVars>>

\* stop_agent after `sleep 2`: kill -9 if is_running still holds, rm -f
StopForce ==
    /\ command.pc = "sleep 2"
    /\ loops' = IF IsRunning THEN {l \in loops : l.pid # command.target} ELSE loops
    /\ pidFile' = NoPidFile
    /\ printed' = "stopped"
    /\ command' = AfterStop
    /\ UNCHANGED <<engineVars, pageVars>>

\* show_status
ShowStatus ==
    /\ command.pc = "show_status"
    /\ printed' = IF IsRunning THEN "running" ELSE "not running"
    /\ pidFile' = AfterIsRunning
    /\ command' = NoCommand
    /\ UNCHANGED loops
    /\ UNCHANGED <<engineVars, pageVars>>

InitAgent == EngineIdle /\ AgentIdle /\ PageIdle

NextAgent ==
    \/ \E name \in Commands, pid \in Pids : Run(name, pid)
    \/ \E configured \in BOOLEAN : StartAgent(configured)
    \/ \E l \in loops : LoopWritesPid(l)
    \/ StartReport
    \/ \E graceful \in BOOLEAN : StopAgent(graceful)
    \/ StopForce
    \/ ShowStatus

SpecAgent == InitAgent /\ [][NextAgent]_vars

-----------------------------------------------------------------------------
(* The App component (frontend/src/App.js): fetchData, the retry button,    *)
(* the time range selector and the refresh effect.                         *)
(*                                                                         *)
(* app.loading, app.servers (servers.length) and app.timeRange are the     *)
(* state the effect's dependencies [fetchData, loading] are made of:       *)
(* fetchData is a new function whenever timeRange or servers.length        *)
(* changes.  app.effect says whether React has the effect to run and what  *)
(* made it so: "mount", "user" (the selector) or "state" (a setLoading or  *)
(* setServers of App itself).  A timer is a record: when it is due, whether *)
(* it is the one the effect's cleanup holds in intervalId, and the value   *)
(* of loading its callback closed over.  app.started is the latest call of *)
(* fetchData: who made it, when, and how long after the call before it.    *)

MaxClock    == 70   \* seconds of page life the model follows
TickSeconds == 10   \* the clock is looked at every so many seconds
MaxInFlight == 3    \* getAllData requests in flight at a time
MaxServers  == 2    \* servers the backend may report

\* getRandomRefreshInterval: floor(random * 20000) + 50000 ms, in seconds
RefreshIntervals == {50, 69}

AppTimeRanges == {"1d", "1w"}

\* a state change of App makes the effect due, unless it is due already
Due(effect) == IF effect = "none" THEN "state" ELSE effect

\* fetchData up to its await: setLoading(true), then the request
FetchData(a, by) ==
    [a EXCEPT !.loading = TRUE,
              !.inFlight = @ + 1,
              !.effect = IF a.loading THEN @ ELSE Due(@),
              !.started = [by |-> by, at |-> clock, gap |-> clock - a.started.at]]

\* setupRandomRefresh: setTimeout(callback, randomInterval)
Timer(interval, held, loading) ==
    [due |-> clock + interval, held |-> held, loading |-> loading]

\* the effect: cleanup of the run before (clearTimeout(intervalId)), then
\* fetchData(false) and the first timer
RunEffect(interval) ==
    /\ app.effect # "none"
    /\ app.inFlight < MaxInFlight
    /\ LET rendered == [app EXCEPT !.effect = "none",
                                   !.timers = {t \in @ : ~t.held}]
           fetching == FetchData(rendered, app.effect)
       IN  app' = [fetching EXCEPT
                      !.timers = @ \cup {Timer(interval, TRUE, app.loading)}]
    /\ UNCHANGED <<clock, chart, cache>>
    /\ UNCHANGED <<engineVars, agentVars>>

\* getAllData settles and fetchData goes on after its await: setServers on
\* success (count valid servers), on failure setServers([]) if there were
\* none; setLoading(false) in both cases
FetchSettles(ok, count) ==
    /\ app.inFlight > 0
    /\ LET length == IF ok THEN count ELSE app.servers
       IN  app' = [app EXCEPT
                      !.inFlight = @ - 1,
                      !.servers = length,
                      !.loading = FALSE,
                      !.effect = IF app.loading \/ length # app.servers
                                 THEN Due(@) ELSE @]
    /\ UNCHANGED <<clock, chart, cache>>
    /\ UNCHANGED <<engineVars, agentVars>>

\* a timer's callback, run once the timer is due: fetchData(true) unless the loading it closed over is
\* true, then the next timer, whose id nobody keeps
TimerFires(t, interval) ==
    /\ app.effect = "none"
    /\ t \in app.timers
    /\ t.due <= clock
    /\ ~t.loading => app.inFlight < MaxInFlight
    /\ LET fired == [app EXCEPT !.timers = @ \ {t}]
           after == IF t.loading THEN fired ELSE FetchData(fired, "timer")
       IN  app' = [after EXCEPT
                      !.timers = @ \cup {Timer(interval, FALSE, t.loading)}]
    /\ UNCHANGED <<clock, chart, cache>>
    /\ UNCHANGED <<engineVars, agentVars>>

\* handleRetry: fetchData()
HandleRetry ==
    /\ app.effect = "none"
    /\ app.inFlight < MaxInFlight
    /\ app' = FetchData(app, "user")
    /\ UNCHANGED <<clock, chart, cache>>
    /\ UNCHANGED <<engineVars, agentVars>>

\* handleTimeRangeChange: setTimeRange(newRange) when it differs
HandleTimeRangeChange(newRange) ==
    /\ app.effect = "none"
    /\ newRange # app.timeRange
    /\ app' = [app EXCEPT !.timeRange = newRange, !.effect = "user"]
    /\ UNCHANGED <<clock, chart, cache>>
    /\ UNCHANGED <<engineVars, agentVars>>

\* time passes: no effect is waiting to run and no timer is due
AppTick ==
    /\ app.effect = "none"
    /\ clock + TickSeconds <= MaxClock
    /\ \A t \in app.timers : t.due > clock
    /\ clock' = clock + TickSeconds
    /\ UNCHANGED <<app, chart, cache>>
    /\ UNCHANGED <<engineVars, agentVars>>

InitApp == EngineIdle /\ AgentIdle /\ PageIdle

NextApp ==
    \/ \E interval \in RefreshIntervals : RunEffect(interval)
    \/ \E ok \in BOOLEAN, count \in 1..MaxServers : FetchSettles(ok, count)
    \/ \E t \in app.timers, interval \in RefreshIntervals : TimerFires(t, interval)
    \/ HandleRetry
    \/ \E newRange \in AppTimeRanges : HandleTimeRangeChange(newRange)
    \/ AppTick

SpecApp == InitApp /\ [][NextApp]_vars

-----------------------------------------------------------------------------
(* A chart that asks for server history: RealtimeChart, CombinedChart or   *)
(* the chart of a ServerCard, and the browser cache of apiService.          *)
(*                                                                         *)
(* chart.fetches are the calls of the chart's fetch function that wait for  *)
(* getServerHistory: each with the timeRange its closure holds and whether  *)
(* it went to the backend (fresh) or was answered from the cache.          *)
(* chart.shown is the window chartData was aggregated for.  chart.refresh   *)
(* is the latest refresh started by a timer: whether getCacheData answered  *)
(* it, and the age of the entry it looked at.  A timer is a record as in   *)
(* App, with the timeRange its callback closed over.                       *)

HistoryTTL == 45

RealtimeInterval == 30

\* isCacheValid on an entry that is there
IsCacheValid(entry) ==
    entry # NoEntry /\ clock - entry.timestamp < entry.duration

\* getCacheData: an expired entry is removed
AfterGetCacheData(key) ==
    [cache EXCEPT ![key] = IF IsCacheValid(@) THEN @ ELSE NoEntry]

\* setCacheData('history', ..., 45000)
AfterSetCacheData(key) ==
    [cache EXCEPT ![key] = [timestamp |-> clock, duration |-> HistoryTTL]]

\* the timer effect of CombinedChart, dependencies [fetchCombinedData,
\* loading]: clearTimeout of the timer it holds, then a new one
Rearm(c, changed, interval) ==
    IF c.kind = "combined" /\ changed
    THEN [c EXCEPT !.timers = {t \in @ : ~t.held} \cup
                       {[due |-> clock + interval, held |-> TRUE,
                         loading |-> c.loading, range |-> c.timeRange]}]
    ELSE c

\* the interval effect of RealtimeChart, dependencies [fetchRealtimeData]:
\* clearInterval, then setInterval(..., 30000)
SetInterval(c) ==
    IF c.kind = "realtime"
    THEN [c EXCEPT !.timers = {[due |-> clock + RealtimeInterval, held |-> TRUE,
                                loading |-> FALSE, range |-> c.timeRange]}]
    ELSE c

\* fetchRealtimeData / fetchCombinedData / fetchServerHistory up to the
\* await: setLoading(true) and getServerHistory(name, range, limit, false),
\* for the timeRange the function closed over
Fetching(c, range, scheduled, interval) ==
    LET entry == cache[CacheKey(c.kind, range)]
        asked == [c EXCEPT
                     !.loading = TRUE,
                     !.fetches = @ \cup {[range |-> range,
                                          fresh |-> ~IsCacheValid(entry)]},
                     !.refresh = IF scheduled
                                 THEN [hit |-> IsCacheValid(entry),
                                       age |-> clock - entry.timestamp]
                                 ELSE @]
    IN  Rearm(asked, ~c.loading, interval)

\* the chart is mounted (a ServerCard: its chart is switched on): the fetch
\* effect and the timer effect run for the first time
Mount(interval) ==
    /\ ~chart.mounted
    /\ chart' = SetInterval(Rearm(
                    Fetching([chart EXCEPT !.mounted = TRUE], chart.timeRange,
                             FALSE, interval),
                    TRUE, interval))
    /\ cache' = AfterGetCacheData(CacheKey(chart.kind, chart.timeRange))
    /\ UNCHANGED <<clock, app>>
    /\ UNCHANGED <<engineVars, agentVars>>

\* setTimeRange(newRange): the fetch function is a new one, the fetch effect
\* calls it, the timer effect of CombinedChart runs again
SetTimeRange(newRange, interval) ==
    /\ chart.mounted
    /\ chart.kind # "realtime"
    /\ newRange # chart.timeRange
    /\ chart' = Rearm(Fetching([chart EXCEPT !.timeRange = newRange], newRange,
                               FALSE, interval),
                      TRUE, interval)
    /\ cache' = AfterGetCacheData(CacheKey(chart.kind, newRange))
    /\ UNCHANGED <<clock, app>>
    /\ UNCHANGED <<engineVars, agentVars>>

\* App has fetched: servers and refreshTrigger are new, the fetch function
\* is a new one, every effect of the chart runs again
RefreshTriggered(interval) ==
    /\ chart.mounted
    /\ chart' = SetInterval(Rearm(
                    Fetching(chart, chart.timeRange, FALSE, interval),
                    chart.kind # "card", interval))
    /\ cache' = AfterGetCacheData(CacheKey(chart.kind, chart.timeRange))
    /\ UNCHANGED <<clock, app>>
    /\ UNCHANGED <<engineVars, agentVars>>

\* a timer is due.  RealtimeChart: the interval calls fetchRealtimeData and
\* stays set.  CombinedChart: the callback calls the fetchCombinedData it
\* closed over unless the loading it closed over is true, then sets the next
\* timer, whose id nobody keeps.
TimerDue(t, interval, next) ==
    /\ t \in chart.timers
    /\ t.due <= clock
    /\ LET fired == [chart EXCEPT !.timers = @ \ {t}]
           skip  == chart.kind = "combined" /\ t.loading
           after == IF skip THEN fired
                    ELSE Fetching(fired, t.range, TRUE, interval)
           again == IF chart.kind = "realtime"
                    THEN [t EXCEPT !.due = clock + RealtimeInterval]
                    ELSE [t EXCEPT !.due = clock + next, !.held = FALSE]
       IN  /\ chart' = [after EXCEPT !.timers = @ \cup {again}]
           /\ cache' = IF skip THEN cache
                       ELSE AfterGetCacheData(CacheKey(chart.kind, t.range))
    /\ UNCHANGED <<clock, app>>
    /\ UNCHANGED <<engineVars, agentVars>>

\* getServerHistory settles and the fetch function goes on after its await:
\* a fresh answer is cached, the chart shows what was aggregated for the
\* timeRange the function closed over, setLoading(false).  Without data the
\* realtime and the combined chart show nothing; a ServerCard whose request
\* failed keeps what it shows.
HistorySettles(f, ok, interval) ==
    /\ f \in chart.fetches
    /\ LET settled == [chart EXCEPT
                          !.fetches = @ \ {f},
                          !.shown = IF ok THEN f.range
                                    ELSE IF chart.kind = "card" THEN @ ELSE "none",
                          !.loading = FALSE]
       IN  chart' = Rearm(settled, chart.loading, interval)
    /\ cache' = IF ok /\ f.fresh THEN AfterSetCacheData(CacheKey(chart.kind, f.range))
                ELSE cache
    /\ UNCHANGED <<clock, app>>
    /\ UNCHANGED <<engineVars, agentVars>>

\* time passes: no timer is due
ChartTick ==
    /\ clock + TickSeconds <= MaxClock
    /\ \A t \in chart.timers : t.due > clock
    /\ clock' = clock + TickSeconds
    /\ UNCHANGED <<app, chart, cache>>
    /\ UNCHANGED <<engineVars, agentVars>>

InitChart ==
    /\ EngineIdle
    /\ AgentIdle
    /\ clock = 0
    /\ app = AppAtMount
    /\ \E kind \in ChartKinds : chart = ChartAtMount(kind)
    /\ cache = NoCache

NextChart ==
    \/ \E interval \in RefreshIntervals : Mount(interval)
    \/ \E newRange \in ChartRanges, interval \in RefreshIntervals :
          SetTimeRange(newRange, interval)
    \/ \E interval \in RefreshIntervals : RefreshTriggered(interval)
    \/ \E t \in chart.timers, interval \in RefreshIntervals,
          next \in RefreshIntervals : TimerDue(t, interval, next)
    \/ \E f \in chart.fetches, ok \in BOOLEAN, interval \in RefreshIntervals :
          HistorySettles(f, ok, interval)
    \/ ChartTick

SpecChart == InitChart /\ [][NextChart]_vars

-----------------------------------------------------------------------------
(* What the properties speak about                                         *)

ByTime   == lastCall.fn = "aggregateDataByTime"
Combined == lastCall.fn = "aggregateCombinedServerData"
Realtime == lastCall.fn = "aggregateRealtimeData"

Points == lastCall.result.points

\* the look-back cutoff of the selected window
Cutoff == now - Duration(timeRange)

\* a sample as the data model sees it: both rates are numbers and the
\* timestamp denotes an instant
NumericRates(p) == p.rx_rate.kind = "num" /\ p.tx_rate.kind = "num"
Parseable(p)    == Instant(p.timestamp) # NaT
ValidSample(p)  == NumericRates(p) /\ Parseable(p)
TooOld(p)       == Parseable(p) /\ Instant(p.timestamp) < Cutoff
InWindow(p)     == Parseable(p) /\ Instant(p.timestamp) >= Cutoff

\* an aggregator argument without the samples that satisfy Drop
Without(x, Drop(_)) ==
    IF x.isArray THEN Arr(SelectSeq(x.items, LAMBDA p : ~Drop(p))) ELSE x

\* the result of the last call's function on the histories with the samples
\* that satisfy Drop taken out
ResultWithout(Drop(_)) ==
    CASE ByTime   -> AggregateDataByTime(Without(history[lastCall.server], Drop), timeRange)
      [] Realtime -> AggregateRealtimeData(Without(history[lastCall.server], Drop))
      [] Combined -> AggregateCombinedServerData(
                         IF lastCall.arg = "all"
                         THEN Arr([s \in Servers |-> Without(history[s], Drop)])
                         ELSE CombinedArg(lastCall.arg), timeRange)

\* the valid in-window samples of an array that belong to the bucket at `key`
InBucket(x, key) ==
    SelectSeq(x.items, LAMBDA p : /\ ValidSample(p)
                                  /\ InWindow(p)
                                  /\ BucketTime(Instant(p.timestamp), timeRange) = key)

\* every sample of every server's history
AllSamples == UNION {{history[s].items[i] : i \in 1..Len(history[s].items)} : s \in Servers}

RxOf(points) == Array([i \in 1..Len(points) |-> ToNumber(points[i].rx_rate)])
TxOf(points) == Array([i \in 1..Len(points) |-> ToNumber(points[i].tx_rate)])

-----------------------------------------------------------------------------
(* C1: aggregateDataByTime and aggregateCombinedServerData never return    *)
(* more than 60 points.                                                    *)
C1_AtMostSixtyPoints ==
    (ByTime \/ Combined) => Len(Points) <= 60

\* more than 60 buckets were filled and 60 points came back
C1_Witness ==
    (ByTime \/ Combined) /\ Len(buckets) > 60 /\ Len(Points) = 60

(* C2: every returned series is strictly ascending by timestamp.           *)
C2_StrictlyAscending ==
    (ByTime \/ Combined \/ Realtime) =>
        \A i \in 1..(Len(Points) - 1) : Points[i].timestamp < Points[i + 1].timestamp

\* the Map held a later bucket before an earlier one, and both came back
C2_Witness ==
    /\ ByTime \/ Combined
    /\ Len(buckets) >= 2
    /\ buckets[1].key > buckets[2].key
    /\ Len(Points) >= 2

(* C3: a sample whose instant is strictly earlier than now - duration      *)
(* contributes to no point: taking such samples out of the input leaves    *)
(* the result of aggregateDataByTime / aggregateCombinedServerData as is.  *)
C3_OldSamplesContributeNothing ==
    (ByTime \/ Combined) => lastCall.result = ResultWithout(TooOld)

(* C4: each point of aggregateDataByTime carries the mean rx_rate and the  *)
(* mean tx_rate of exactly the valid in-window samples of its bucket.      *)
C4_MeanOfValidSamples ==
    (ByTime /\ ~lastCall.result.threw) =>
        \A i \in 1..Len(Points) :
            LET members == InBucket(history[lastCall.server], Points[i].timestamp) IN
            /\ Len(members) > 0
            /\ Points[i].rx_rate = MeanOf(RxOf(members))
            /\ Points[i].tx_rate = MeanOf(TxOf(members))

(* C5: each point of aggregateCombinedServerData carries the sum, over the *)
(* servers with a valid sample in the bucket, of the server's own means,   *)
(* and counts those servers.                                               *)
RECURSIVE SumOfMeans(_, _)
SumOfMeans(key, n) ==
    IF n = 0 THEN [rx |-> Zero, tx |-> Zero, count |-> 0]
    ELSE LET rest    == SumOfMeans(key, n - 1)
             members == InBucket(history[n], key)
         IN  IF Len(members) = 0 THEN rest
             ELSE [rx |-> RatAdd(rest.rx, MeanOf(RxOf(members))),
                   tx |-> RatAdd(rest.tx, MeanOf(TxOf(members))),
                   count |-> rest.count + 1]

C5_SumOfServerMeans ==
    (Combined /\ lastCall.arg = "all" /\ ~lastCall.result.threw) =>
        \A i \in 1..Len(Points) :
            LET sum == SumOfMeans(Points[i].timestamp, NumServers) IN
            /\ Points[i].total_rx = sum.rx
            /\ Points[i].total_tx = sum.tx
            /\ Points[i].server_count = sum.count
            /\ sum.count >= 1

(* C6: a sample with a missing, null or non-numeric rate adds nothing to   *)
(* any bucket: taking such samples out of the input leaves what each of    *)
(* the three aggregators shows as it is.                                   *)
\* what a result shows of its input: every point of the two history
\* aggregators, and of the 30 realtime points the ones that received a sample
Filled(result) ==
    [result EXCEPT !.points =
        SelectSeq(@, LAMBDA pt : ~Realtime \/ pt.data_points > 0)]

C6_BadRatesAddNothing ==
    (ByTime \/ Combined \/ Realtime) =>
        Filled(lastCall.result) = Filled(ResultWithout(LAMBDA p : ~NumericRates(p)))

(* C7: a sample with an unparseable timestamp is dropped:                  *)
(* aggregateDataByTime and aggregateCombinedServerData do not throw and    *)
(* return what the remaining samples produce.                              *)
C7_UnparseableDropped ==
    (ByTime \/ Combined) =>
        /\ ~lastCall.result.threw
        /\ lastCall.result = ResultWithout(LAMBDA p : p.timestamp.kind = "garbage")

(* C8: normalizeTimestamp maps every representation of one instant to the  *)
(* same instant, so samples of one moment get the same bucket key.         *)
C8_OneInstantOneKey ==
    \A p, q \in AllSamples :
        (Parseable(p) /\ Instant(p.timestamp) = Instant(q.timestamp)) =>
            /\ NormalizeTimestamp(p.timestamp) = NormalizeTimestamp(q.timestamp)
            /\ KeyOf(p, timeRange) = KeyOf(q, timeRange)

(* C9: aggregateDataByTime and aggregateCombinedServerData return the      *)
(* empty array, without throwing, when the input is null, no array, empty, *)
(* or holds only samples that are invalid or older than the cutoff.        *)
NothingToShow(x) ==
    \/ EmptyInput(x)
    \/ \A i \in 1..Len(x.items) : ~ValidSample(x.items[i]) \/ TooOld(x.items[i])

C9_EmptyWhenNothingValid ==
    /\ (ByTime /\ NothingToShow(history[lastCall.server]))
           => lastCall.result = Returned(<<>>)
    /\ (Combined /\ (lastCall.arg = "all" => \A s \in Servers : NothingToShow(history[s])))
           => lastCall.result = Returned(<<>>)

OrdersOf(n) ==
    IF n <= MaxPermuted THEN Permutations(1..n)
    ELSE { [i \in 1..n |-> n + 1 - i], [i \in 1..n |-> (i % n) + 1] }

Reordered(x) ==
    IF EmptyInput(x) THEN {x}
    ELSE { Arr(Array([i \in 1..Len(x.items) |-> x.items[f[i]]])) :
               f \in OrdersOf(Len(x.items)) }

\* what the last call's function returns on the reordered input: one
\* server's array in each of its orders, and all arrays reordered at once
ReorderedResults ==
    CASE ByTime ->
           { AggregateDataByTime(y, timeRange) :
                 y \in Reordered(history[lastCall.server]) }
      [] Combined /\ lastCall.arg = "all" ->
           UNION { { AggregateCombinedServerData(Arr([history EXCEPT ![s] = y]), timeRange) :
                         y \in Reordered(history[s]) } : s \in Servers }
           \cup
           { AggregateCombinedServerData(
                 Arr([s \in Servers |-> CHOOSE y \in Reordered(history[s]) :
                          EmptyInput(history[s]) \/ Len(history[s].items) = 1
                              \/ y # history[s]]), timeRange) }
      [] OTHER -> {lastCall.result}

Shape(result) ==
    IF ~(ByTime \/ Combined) THEN result
    ELSE
    [result EXCEPT !.points =
        Array([i \in 1..Len(@) |->
            [timestamp |-> @[i].timestamp,
             timestamp_formatted |-> @[i].timestamp_formatted,
             holds |-> IF ByTime THEN @[i].data_points ELSE @[i].server_count]])]

\* every rate is an integer below 2^53, and so is every sum of them
ExactSums ==
    \A p \in AllSamples : p.rx_rate.huge = 0 /\ p.tx_rate.huge = 0

C13_GreatestSixty ==
    (ByTime \/ Combined) =>
        LET keys     == {buckets[i].key : i \in 1..Len(buckets)}
            returned == {Points[i].timestamp : i \in 1..Len(Points)}
        IN  /\ Len(Points) = IF Len(buckets) > 60 THEN 60 ELSE Len(buckets)
            /\ Cardinality(returned) = Len(Points)
            /\ returned \subseteq keys
            /\ \A k \in keys \ returned : \A r \in returned : k < r

\* the window labels the charts offer
Labels == {"1h", "6h", "12h", "1d", "3d", "1w"}

\* instants spread evenly over the selected window, the clock's reading
\* last, and no further apart than the narrowest bucket of any label
WindowInstants ==
    {now - (k * Duration(timeRange)) \div GridPoints : k \in 0..GridPoints}

(* C14: for every window label and instant t the bucket key function       *)
(* returns the start of the fixed-width window that holds t:               *)
(* key(t) <= t < key(t) + width, with width 1, 6, 12, 24 minutes for 1h,   *)
(* 6h, 12h, 1d and 1.2, 2.8 hours for 3d, 1w; all buckets of a label have  *)
(* that width, so the next bucket starts where this one ends.              *)
C14_FixedWidthWindows ==
    timeRange \in Labels =>
        \A t \in WindowInstants :
            LET key == BucketFunction(timeRange, t) IN
            /\ key <= t
            /\ t < key + Width(timeRange)
            /\ BucketFunction(timeRange, key + Width(timeRange)) = key + Width(timeRange)

\* the bucket keys of the instants of the selected window
WindowKeys == {BucketTime(t, timeRange) : t \in WindowInstants}

(* C15: for every window label the instants of an interval as long as the  *)
(* window map to at most 61 distinct bucket keys, so cutting the series to *)
(* 60 points drops at most one bucket of in-window data.                   *)
C15_AtMostSixtyOneKeys ==
    timeRange \in Labels => Cardinality(WindowKeys) <= 61

\* 30 points, each 30 seconds after the one before it, and total_throughput
\* 0 wherever no sample arrived
ThirtyPoints ==
    /\ Len(Points) = 30
    /\ \A i \in 1..(Len(Points) - 1) :
           Points[i + 1].timestamp = Points[i].timestamp + 30
    /\ \A i \in 1..Len(Points) :
           Points[i].data_points = 0 => Points[i].total_throughput = Zero

(* C16: for every server's sample array, an empty one and one whose        *)
(* samples are all older than 15 minutes included, aggregateRealtimeData   *)
(* returns exactly 30 points at 30-second spacing; a bucket without        *)
(* samples has total_throughput 0 and is not dropped.                      *)
C16_AlwaysThirtyPoints ==
    (Realtime /\ history[lastCall.server].isArray) => ThirtyPoints

(* C16, amended: for every non-empty sample array, one whose samples are   *)
(* all older than 15 minutes included, aggregateRealtimeData returns       *)
(* exactly 30 points at 30-second spacing, a bucket without samples with   *)
(* total_throughput 0; for an empty array (and for what is no array) it    *)
(* returns the empty series.                                               *)
C16_ThirtyPointsUnlessEmpty ==
    Realtime =>
        IF EmptyInput(history[lastCall.server])
        THEN lastCall.result = Returned(<<>>)
        ELSE ThirtyPoints

\* every sample of the array is older than 15 minutes and 30 empty points
\* came back
C16_Witness ==
    /\ Realtime
    /\ ~EmptyInput(history[lastCall.server])
    /\ \A i \in 1..Len(history[lastCall.server].items) :
           LET p == history[lastCall.server].items[i] IN
           Parseable(p) /\ Instant(p.timestamp) < now - RealtimeWindow
    /\ Len(Points) = 30
    /\ \A i \in 1..Len(Points) : Points[i].data_points = 0

(* C17: each point returned by aggregateRealtimeData has total_throughput  *)
(* mean(rx_rate) + mean(tx_rate) over exactly the valid samples whose      *)
(* 30-second bucket key equals the point's timestamp (0 when there are     *)
(* none).                                                                  *)
C17_ThroughputOfValidSamples ==
    Realtime =>
        \A i \in 1..Len(Points) :
            LET in == SelectSeq(history[lastCall.server].items,
                          LAMBDA p : /\ ValidSample(p)
                                     /\ RealtimeKey(Instant(p.timestamp)) = Points[i].timestamp)
            IN  /\ Points[i].data_points = Len(in)
                /\ Points[i].total_throughput =
                       IF Len(in) = 0 THEN Zero
                       ELSE RatAdd(MeanOf(RxOf(in)), MeanOf(TxOf(in)))

\* what the last call's function returns on the same input under `range`
ResultUnder(range) ==
    IF ByTime THEN AggregateDataByTime(history[lastCall.server], range)
    ELSE AggregateCombinedServerData(CombinedArg(lastCall.arg), range)

(* C18: for a window label outside {1h, 6h, 12h, 1d, 3d, 1w}               *)
(* aggregateDataByTime and aggregateCombinedServerData do not fail on the  *)
(* label and return exactly what they return for label 1h on the same      *)
(* samples and clock: the cutoff, the bucket key function, the             *)
(* standardization interval and the target point count are those of 1h.    *)
C18_UnknownLabelIsOneHour ==
    timeRange \notin Labels =>
        /\ TimeRangeCutoff(timeRange) = TimeRangeCutoff("1h")
        /\ IntervalSeconds(timeRange) = IntervalSeconds("1h")
        /\ TargetDataPoints(timeRange) = TargetDataPoints("1h")
        /\ \A t \in WindowInstants :
               BucketFunction(timeRange, t) = BucketFunction("1h", t)
        /\ (ByTime \/ Combined) => lastCall.result = ResultUnder("1h")

\* under an unknown label a sample older than an hour was left out and a
\* newer one came back
C18_Witness ==
    /\ timeRange \notin Labels
    /\ ByTime \/ Combined
    /\ ~lastCall.result.threw
    /\ Len(Points) > 0
    /\ \E p \in AllSamples : Parseable(p) /\ Instant(p.timestamp) < now - 3600

(* C19: every point returned by aggregateCombinedServerData has            *)
(* 1 <= server_count <= number of input server arrays; no point with       *)
(* server_count 0 is emitted.                                              *)
C19_ServerCountInRange ==
    Combined =>
        \A i \in 1..Len(Points) :
            /\ Points[i].server_count >= 1
            /\ Points[i].server_count <= Len(CombinedArg(lastCall.arg).items)

\* a point that every server contributed to, one of them with several
\* samples
C19_Witness ==
    /\ Combined
    /\ \E i \in 1..Len(Points) : Points[i].server_count = NumServers
    /\ \E b \in 1..Len(buckets) : \E m \in 1..Len(buckets[b].servers) :
           Len(buckets[b].servers[m].rx_values) >= 2

(* C20: every backend endpoint requires a valid API key: a request whose   *)
(* x-api-key header is absent or differs from the configured key is        *)
(* answered 403 and reaches no route handler and no database query.        *)
C20_KeyRequiredEverywhere ==
    (response # NoResponse /\ response.header # "API_KEY") =>
        /\ response.answer.status = 403
        /\ ~response.answer.handler
        /\ ~response.answer.query

(* C22: the real-time buckets span the 15 minutes up to now: every valid   *)
(* sample whose timestamp t satisfies now - 15 min <= t <= now is assigned *)
(* to exactly one of the 30 pre-created buckets, so the most recent        *)
(* samples are never dropped.                                              *)
C22_RecentSamplesBucketed ==
    (Realtime /\ ~EmptyInput(history[lastCall.server])) =>
        \A i \in 1..Len(history[lastCall.server].items) :
            LET p == history[lastCall.server].items[i] IN
            (ValidSample(p) /\ now - RealtimeWindow <= Instant(p.timestamp)
                            /\ Instant(p.timestamp) <= now) =>
                /\ KeptRealtime(p)
                /\ Cardinality({b \in 1..Len(buckets) :
                                    buckets[b].key = RealtimeKeyOf(p)}) = 1

(* C27: the bucket key function is idempotent for every label:             *)
(* key(key(t)) = key(t) for every instant t, so the timestamp shown for a  *)
(* bucket is an instant of that bucket.                                    *)
C27_KeyIdempotent ==
    timeRange \in Labels =>
        \A t \in WindowInstants :
            BucketFunction(timeRange, BucketFunction(timeRange, t))
                = BucketFunction(timeRange, t)

C29_CombinerOfOneServer ==
    ByTime =>
        LET one == AggregateCombinedServerData(Arr(<<history[lastCall.server]>>),
                                               timeRange)
        IN  /\ one.threw = lastCall.result.threw
            /\ Len(one.points) = Len(Points)
            /\ \A i \in 1..Len(Points) :
                   /\ one.points[i].timestamp = Points[i].timestamp
                   /\ one.points[i].total_rx = Points[i].rx_rate
                   /\ one.points[i].total_tx = Points[i].tx_rate
                   /\ one.points[i].server_count = 1

\* an array that fills several buckets, one of them from several samples
\* with rates that are not 0
C29_Witness ==
    /\ ByTime
    /\ Len(Points) >= 2
    /\ \E i \in 1..Len(Points) : Points[i].rx_rate # Zero
    /\ AggregateCombinedServerData(Arr(<<history[lastCall.server]>>),
                                   timeRange).points # <<>>

(* C24: for every window label the range string of getBackendTimeRange, as *)
(* parseTimeRangeToHours reads it, is the duration its comment states (75  *)
(* minutes, 8 h, 15 h, 30 h, 4 days, 10 days), '20m' of the real-time      *)
(* chart is 20 minutes, and the backend's WHERE clause admits no sample    *)
(* older than that duration.                                               *)
C24_RangeStringsMeanWhatTheySay ==
    /\ timeRange \in Labels =>
           ParseTimeRangeToHours(BackendTimeRange(timeRange)) * 60
               = StatedMinutes(timeRange)
    /\ ParseTimeRangeToHours(RealtimeRange) * 60 = 20

(* C25: with an agent reporting every 5 seconds the history request for a  *)
(* label (its range, its limit, newest rows first) returns samples that    *)
(* cover the whole look-back window: limit x 5 s >= duration, for every    *)
(* defined label.                                                          *)
C25_LimitCoversWindow ==
    timeRange \in Labels =>
        /\ BackendLimit(timeRange) * AgentInterval >= Duration(timeRange)
        /\ OldestRow(ParseTimeRangeToHours(BackendTimeRange(timeRange)),
                     BackendLimit(timeRange), AgentInterval) + AgentInterval
               >= Duration(timeRange)

\* C26: for any sequence of start / stop / restart / status commands at most
\* one monitoring loop is alive at a time.
C26_AtMostOneLoop == Cardinality(loops) <= 1

\* C21: App starts a data fetch only at mount, on a user action or when a
\* refresh timer fires, and a fetch the user did not ask for starts no less
\* than 50 seconds after the fetch before it.
C21_FetchOnlyWhenScheduled ==
    \/ app.started.by \in {"none", "mount", "user"}
    \/ app.started.by = "timer" /\ app.started.gap >= 50

\* C23: every refresh a chart's timer starts finds the history entry of the
\* refresh before it expired and fetches from the backend.
C23_ScheduledRefreshIsFresh == ~chart.refresh.hit

\* C30: in ServerCard and CombinedChart, once every history fetch in flight
\* has completed and the one for the selected timeRange has delivered its
\* data, the chart data shown is the one aggregated for the selected
\* timeRange.
C30_ShownIsSelected ==
    (chart.kind \in {"combined", "card"} /\ chart.fetches = {}
        /\ chart.shown # "none"
        /\ cache[CacheKey(chart.kind, chart.timeRange)] # NoEntry)
        => chart.shown = chart.timeRange

====
